---------------------------- MODULE Spec2Model ----------------------------
(***************************************************************************)
(* ShinBot: the Gemini relay handler (handlers/ai/chat.py) and the         *)
(* permission decorators (utils/decorators.py).                            *)
(*                                                                         *)
(* Two state machines share this module.                                   *)
(*   Spec      - NumInv concurrent gemini_command coroutines interleaved   *)
(*               at their await points over active_gemini_requests.        *)
(*   FairSpec  - Spec, with every started coroutine eventually resumed.    *)
(*   GateSpec  - one run of admin_only / protect_admins /                  *)
(*               require_permission / check_admin_permissions against an   *)
(*               arbitrary chat, with every awaited call free to raise.    *)
(* Each action is one awaited call together with the synchronous code that *)
(* follows it up to the next await (asyncio never switches in between).    *)
(***************************************************************************)
EXTENDS Integers, Sequences, FiniteSets, TLC

VARIABLES
    active_gemini_requests, \* chat.py:21   the module-level set
    pc,                     \* per coroutine: the await it is suspended at
    chat_id,                \* per coroutine: message.chat.id
    message,                \* per coroutine: the inbound message (its text)
    parts,                  \* per coroutine: lengths of the segments to send
    sent,                   \* per coroutine: segments sent so far
    log,                    \* per coroutine: the calls it made, in order
    gate,                   \* which wrapper / function the gate run executes
    gpc,                    \* the gate run's await position
    chat_type,              \* chat.type of the chat the command arrived in
    members,                \* the chat's membership: user id -> status, privileges
    target_user,            \* what extract_user_and_reason finds
    permission,             \* require_permission's argument
    cap_user,               \* user_id argument of check_admin_permissions
    is_admin,               \* return value of check_admin_permissions
    calls,                  \* the gate run's calls, in order, with outcomes
    response_text,          \* chunking: response.text
    cpc,                    \* chunking: position in chat.py:81-89
    pending,                \* chunking: the segments not sent yet
    outbox                  \* chunking: the segment replies sent, in order

gemini_vars == <<active_gemini_requests, pc, chat_id, message, parts, sent, log>>
gate_vars == <<gate, gpc, chat_type, members, target_user, permission, cap_user,
               is_admin, calls>>
chunk_vars == <<response_text, cpc, pending, outbox>>
vars == <<active_gemini_requests, pc, chat_id, message, parts, sent, log,
          gate, gpc, chat_type, members, target_user, permission, cap_user,
          is_admin, calls, response_text, cpc, pending, outbox>>

-----------------------------------------------------------------------------
(* Bounds and program constants *)

\* number of gemini_command invocations that may be in flight together
NumInv == 2

\* chat.py:82
limit == 4000

Inv == 1..NumInv
Chats == {"chatA", "chatB"}

\* outcome of an awaited call: it returns, or it raises an Exception
Outcomes == {"ok", "err"}

Ev(c, r) == [call |-> c, res |-> r]

-----------------------------------------------------------------------------
(* Message text and prompt extraction, chat.py:38 *)

CMD == "/gemini"
MENTION == "@ShinBot"
SP == " "

\* message.text is None for a media message (the command sits in the caption)
NoText == [has_text |-> FALSE, text |-> <<>>]
TextSamples == { <<CMD, MENTION, SP>>, <<CMD, SP, "hi">> }
Messages == {NoText} \cup {[has_text |-> TRUE, text |-> t] : t \in TextSamples}

\* longest message text of PromptSpec, in tokens
MaxTextLen == 3

\* every text of at most MaxTextLen tokens: command, mention, blank, word
Tokens == {CMD, MENTION, SP, "hi"}
AllTexts == UNION {[1..n -> Tokens] : n \in 0..MaxTextLen}
AllMessages == {NoText} \cup {[has_text |-> TRUE, text |-> t] : t \in AllTexts}

\* str.replace(tok, "")
Replace(s, tok) == SelectSeq(s, LAMBDA t : t # tok)

RECURSIVE LStrip(_)
LStrip(s) == IF s # <<>> /\ Head(s) = SP THEN LStrip(Tail(s)) ELSE s

RECURSIVE RStrip(_)
RStrip(s) ==
    IF s # <<>> /\ s[Len(s)] = SP THEN RStrip(SubSeq(s, 1, Len(s) - 1)) ELSE s

\* str.strip()
Strip(s) == LStrip(RStrip(s))

\* the bot mention left in the prompt
ExtractPromptNoMention(t) == Strip(Replace(t, CMD))

\* chat.py:38
ExtractPrompt(t) == Strip(Replace(Replace(t, CMD), MENTION))

-----------------------------------------------------------------------------
(* Response chunking, chat.py:81-89 *)

Min(a, b) == IF a < b THEN a ELSE b

\* range(0, len(response_text), limit)
ChunkStarts(L) == {i \in 0..L : i % limit = 0 /\ i < L}

\* lengths of [response_text[i: i + limit] for i in range(0, L, limit)]
Chunks(L) ==
    [k \in 1..Cardinality(ChunkStarts(L)) |-> Min(limit, L - (k - 1) * limit)]

\* a text of n units, each unit told apart by its position
TextOfLen(n) == [k \in 1..n |-> k]

\* longest response of ChunkSpec, in multiples of limit
MaxChunks == 4

\* response lengths on both sides of every multiple of limit
ChunkLens ==
    {n \in {m * limit + d : m \in 0..MaxChunks, d \in {-1, 0, 1}} : n >= 0}

\* only the full parts: the remainder is lost
PartsDropTail(t) ==
    [k \in 1..(Len(t) \div limit) |-> SubSeq(t, (k - 1) * limit + 1, k * limit)]

\* chat.py:84: [response_text[i: i + limit] for i in range(0, len, limit)];
\* a slice stops at the end of the text
Parts(t) ==
    [k \in 1..Cardinality(ChunkStarts(Len(t))) |->
        SubSeq(t, (k - 1) * limit + 1, Min(k * limit, Len(t)))]

\* response.text is None when the backend returns no text part
ResponseLens == {limit, 2 * limit + 1}
Responses == {[has_text |-> FALSE, len |-> 0]}
                 \cup {[has_text |-> TRUE, len |-> n] : n \in ResponseLens}

-----------------------------------------------------------------------------
(* gemini_command, chat.py:26-96 *)

\* the guard left out: every request is let through
GuardNever(c) == FALSE

\* chat.py:31   if chat_id in active_gemini_requests
GuardBusy(c) == c \in active_gemini_requests

\* the insertion left out: the set never records the request
AcquireNothing(S, c) == S

\* chat.py:34   active_gemini_requests.add(chat_id)
Acquire(S, c) == S \cup {c}

\* the removal left out: the chat id stays in the set
ReleaseNothing(S, c) == S

\* chat.py:41, chat.py:96   active_gemini_requests.discard(chat_id)
Release(S, c) == S \ {c}

Logged(i, c, r) == log' = [log EXCEPT ![i] = Append(@, Ev(c, r))]

\* the backend called without the interim reply
AfterSaveUsageNoInterim(m) ==
    IF ~m.has_text THEN "reply_error"
    ELSE IF ExtractPrompt(m.text) = <<>> THEN "reply_usage"
    ELSE "generate"

\* chat.py:38-44: the synchronous code between save_usage and the next await
AfterSaveUsage(m) ==
    IF ~m.has_text THEN "reply_error"                  \* None.replace raises
    ELSE IF ExtractPrompt(m.text) = <<>> THEN "reply_usage"
    ELSE "reply_wait"

\* chat.py:81-89: the synchronous code between generate_content and the next await
AfterGenerate(r) ==
    IF ~r.has_text THEN "reply_error"                  \* len(None) raises
    ELSE IF r.len > limit THEN "reply_part"
    ELSE "reply_whole"

\* chat.py:83-89: what is sent, as lengths: the parts, or the whole text
Segments(r) ==
    IF ~r.has_text THEN <<>>
    ELSE IF r.len > limit THEN Chunks(r.len)
    ELSE <<r.len>>

\* chat.py:26-34: the handler runs from its call to its first await; the
\* message is one of msgs
EnterFrom(i, msgs) ==
    /\ pc[i] = "idle"
    /\ \A j \in Inv : j < i => pc[j] # "idle"    \* invocations are numbered as they arrive
    /\ \E c \in Chats, m \in msgs :
        /\ chat_id' = [chat_id EXCEPT ![i] = c]
        /\ message' = [message EXCEPT ![i] = m]
        /\ IF GuardBusy(c)
           THEN /\ pc' = [pc EXCEPT ![i] = "reply_busy"]
                /\ UNCHANGED active_gemini_requests
           ELSE /\ pc' = [pc EXCEPT ![i] = "save_usage"]
                /\ active_gemini_requests' = Acquire(active_gemini_requests, c)
    /\ UNCHANGED <<parts, sent, log>>
    /\ UNCHANGED <<gate_vars, chunk_vars>>

\* chat.py:26-34
Enter(i) ==
    /\ pc[i] = "idle"
    /\ EnterFrom(i, Messages)

\* chat.py:32-33
ReplyBusy(i) ==
    /\ pc[i] = "reply_busy"
    /\ \E o \in Outcomes :
        /\ Logged(i, "reply_busy", o)
        /\ pc' = [pc EXCEPT ![i] = IF o = "ok" THEN "done" ELSE "raised"]
    /\ UNCHANGED <<active_gemini_requests, chat_id, message, parts, sent>>
    /\ UNCHANGED <<gate_vars, chunk_vars>>

\* chat.py:36: awaited before the try statement is entered
SaveUsage(i) ==
    /\ pc[i] = "save_usage"
    /\ \E o \in Outcomes :
        /\ Logged(i, "save_usage", o)
        /\ pc' = [pc EXCEPT ![i] =
                     IF o = "ok" THEN AfterSaveUsage(message[i]) ELSE "raised"]
    /\ UNCHANGED <<active_gemini_requests, chat_id, message, parts, sent>>
    /\ UNCHANGED <<gate_vars, chunk_vars>>

\* chat.py:40-42, then the finally clause
ReplyUsage(i) ==
    /\ pc[i] = "reply_usage"
    /\ \E o \in Outcomes :
        /\ Logged(i, "reply_usage", o)
        /\ IF o = "ok"
           THEN /\ pc' = [pc EXCEPT ![i] = "done"]
                /\ active_gemini_requests' =
                       Release(Release(active_gemini_requests, chat_id[i]), chat_id[i])
           ELSE /\ pc' = [pc EXCEPT ![i] = "reply_error"]
                /\ UNCHANGED active_gemini_requests
    /\ UNCHANGED <<chat_id, message, parts, sent>>
    /\ UNCHANGED <<gate_vars, chunk_vars>>

\* chat.py:44
ReplyWait(i) ==
    /\ pc[i] = "reply_wait"
    /\ \E o \in Outcomes :
        /\ Logged(i, "reply_wait", o)
        /\ pc' = [pc EXCEPT ![i] = IF o = "ok" THEN "generate" ELSE "reply_error"]
    /\ UNCHANGED <<active_gemini_requests, chat_id, message, parts, sent>>
    /\ UNCHANGED <<gate_vars, chunk_vars>>

\* chat.py:75-84
Generate(i) ==
    /\ pc[i] = "generate"
    /\ \/ /\ Logged(i, "generate_content", "err")
          /\ pc' = [pc EXCEPT ![i] = "reply_error"]
          /\ UNCHANGED <<parts, sent>>
       \/ \E r \in Responses :
          /\ Logged(i, "generate_content", "ok")
          /\ pc' = [pc EXCEPT ![i] = AfterGenerate(r)]
          /\ parts' = [parts EXCEPT ![i] = Segments(r)]
          /\ sent' = [sent EXCEPT ![i] = 0]
    /\ UNCHANGED <<active_gemini_requests, chat_id, message>>
    /\ UNCHANGED <<gate_vars, chunk_vars>>

\* chat.py:86
ReplyPart(i) ==
    /\ pc[i] = "reply_part"
    /\ \E o \in Outcomes :
        /\ Logged(i, "reply_part", o)
        /\ IF o = "ok"
           THEN /\ pc' = [pc EXCEPT ![i] = "sleep"]
                /\ sent' = [sent EXCEPT ![i] = @ + 1]
           ELSE /\ pc' = [pc EXCEPT ![i] = "reply_error"]
                /\ UNCHANGED sent
    /\ UNCHANGED <<active_gemini_requests, chat_id, message, parts>>
    /\ UNCHANGED <<gate_vars, chunk_vars>>

\* chat.py:87, then the next iteration of the for loop or chat.py:91
Sleep(i) ==
    /\ pc[i] = "sleep"
    /\ pc' = [pc EXCEPT ![i] = IF sent[i] < Len(parts[i]) THEN "reply_part" ELSE "delete"]
    /\ UNCHANGED <<active_gemini_requests, chat_id, message, parts, sent, log>>
    /\ UNCHANGED <<gate_vars, chunk_vars>>

\* chat.py:89
ReplyWhole(i) ==
    /\ pc[i] = "reply_whole"
    /\ \E o \in Outcomes :
        /\ Logged(i, "reply_whole", o)
        /\ IF o = "ok"
           THEN /\ pc' = [pc EXCEPT ![i] = "delete"]
                /\ sent' = [sent EXCEPT ![i] = @ + 1]
           ELSE /\ pc' = [pc EXCEPT ![i] = "reply_error"]
                /\ UNCHANGED sent
    /\ UNCHANGED <<active_gemini_requests, chat_id, message, parts>>
    /\ UNCHANGED <<gate_vars, chunk_vars>>

\* chat.py:91, then the finally clause
Delete(i) ==
    /\ pc[i] = "delete"
    /\ \E o \in Outcomes :
        /\ Logged(i, "delete", o)
        /\ IF o = "ok"
           THEN /\ pc' = [pc EXCEPT ![i] = "done"]
                /\ active_gemini_requests' = Release(active_gemini_requests, chat_id[i])
           ELSE /\ pc' = [pc EXCEPT ![i] = "reply_error"]
                /\ UNCHANGED active_gemini_requests
    /\ UNCHANGED <<chat_id, message, parts, sent>>
    /\ UNCHANGED <<gate_vars, chunk_vars>>

\* chat.py:92-96: the except clause, then the finally clause
ReplyError(i) ==
    /\ pc[i] = "reply_error"
    /\ \E o \in Outcomes :
        /\ Logged(i, "reply_error", o)
        /\ pc' = [pc EXCEPT ![i] = IF o = "ok" THEN "done" ELSE "raised"]
    /\ active_gemini_requests' = Release(active_gemini_requests, chat_id[i])
    /\ UNCHANGED <<chat_id, message, parts, sent>>
    /\ UNCHANGED <<gate_vars, chunk_vars>>

\* a resumption of coroutine i at the await it is suspended at
Resume(i) ==
    \/ ReplyBusy(i) \/ SaveUsage(i) \/ ReplyUsage(i) \/ ReplyWait(i)
    \/ Generate(i) \/ ReplyPart(i) \/ Sleep(i) \/ ReplyWhole(i)
    \/ Delete(i) \/ ReplyError(i)

GeminiInit ==
    /\ active_gemini_requests = {}
    /\ pc = [i \in Inv |-> "idle"]
    /\ chat_id = [i \in Inv |-> "chatA"]
    /\ message = [i \in Inv |-> NoText]
    /\ parts = [i \in Inv |-> <<>>]
    /\ sent = [i \in Inv |-> 0]
    /\ log = [i \in Inv |-> <<>>]


-----------------------------------------------------------------------------
(* The chat platform as the decorators see it, decorators.py *)

Gates == {"admin_only", "protect_admins", "require_permission",
          "check_admin_permissions"}

\* pyrogram.enums.ChatMemberStatus
Statuses == {"owner", "administrator", "member", "restricted", "left", "banned"}

\* names of ChatPrivileges flags a command can require
Permissions == {"can_restrict_members", "can_delete_messages"}

\* member.privileges: None, or an object with boolean flags
NoPrivileges == [present |-> FALSE, flags |-> {}]
PrivilegeSets ==
    {NoPrivileges} \cup {[present |-> TRUE, flags |-> F] : F \in SUBSET Permissions}

\* "me" is the bot, u1 is message.from_user, u2 is another participant
UserIds == {"me", "u1", "u2"}
Invoker == "u1"
Targets == {"none", "u1", "u2"}
ChatTypes == {"private", "supergroup"}

Member(st, pr) == [status |-> st, privileges |-> pr]

\* what get_chat_administrators returns when it returns: the owner and the
\* administrators of the chat
Administrators ==
    SelectSeq(<<"u2", "me", "u1">>,
              LAMBDA u : members[u].status \in {"owner", "administrator"})

\* outcomes of get_chat_member: a record, UserAdminInvalid, another exception
LookupOutcomes == {"ok", "uai", "err"}

\* a call made by function f: what was called, its outcome, its argument
GEv(f, c, r, t) == [by |-> f, call |-> c, res |-> r, text |-> t]
CalledBy(f, c, r, t) == calls' = Append(calls, GEv(f, c, r, t))
Called(c, r, t) == CalledBy(gate, c, r, t)

env_vars == <<gate, chat_type, members, target_user, permission>>

-----------------------------------------------------------------------------
(* Decisions taken in synchronous code *)

\* the owner forgotten: only ADMINISTRATOR counts
IsAdminStatusNoOwner(st) == st = "administrator"

\* the test dropped: every status counts
IsAdminStatusAny(st) == TRUE

\* decorators.py:25, 36, 81, 153
\*   status in [ChatMemberStatus.OWNER, ChatMemberStatus.ADMINISTRATOR]
IsAdminStatus(st) == st \in {"owner", "administrator"}

\* the enum name compared without lower(): "PRIVATE" never equals "private"
IsPrivateCaseSensitive(t) == t = "PRIVATE"

\* decorators.py:15, 78, 114, 147   chat.type.name.lower() == "private"
IsPrivate(t) == t = "private"

\* the named flag not read: any privilege object passes
HasPermissionAny(m, p) == m.privileges.present

\* decorators.py:169, 188
\*   member.privileges and getattr(member.privileges, permission, False)
HasPermission(m, p) == m.privileges.present /\ p \in m.privileges.flags

\* a search that looks at the first entry only
InAdminsFirstOnly(admins, uid) == Len(admins) > 0 /\ admins[1] = uid

\* decorators.py:55-61   the linear search of the administrator list
InAdmins(admins, uid) == \E k \in 1..Len(admins) : admins[k] = uid

\* decorators.py:165-175   require_permission after the direct lookup returned
DirectDecision(m, p) ==
    IF m.status = "owner" THEN "rp_func_direct"
    ELSE IF m.status = "administrator"
         THEN IF HasPermission(m, p) THEN "rp_func_direct"
              ELSE "rp_reply_need_permission"
         ELSE "rp_reply_not_admin"

\* decorators.py:184-193   require_permission scanning the administrator list
FallbackDecision(admins, uid, p) ==
    IF InAdmins(admins, uid)
    THEN IF members[uid].status = "owner" THEN "rp_func_fallback"
         ELSE IF HasPermission(members[uid], p) THEN "rp_func_fallback"
              ELSE "rp_reply_need_permission_fb"
    ELSE "rp_reply_not_admin_fb"

\* admin_only going on to the body whatever the check returned
AfterCheckOpen(g, v) ==
    IF g = "admin_only" THEN "ao_func"
    ELSE IF g = "protect_admins" THEN (IF v THEN "pa_reply_target_admin" ELSE "pa_func")
    ELSE "done"

\* protect_admins rejecting whatever the check returned
AfterCheckBlocks(g, v) ==
    IF g = "admin_only" THEN (IF ~v THEN "ao_reply_not_admin" ELSE "ao_func")
    ELSE IF g = "protect_admins" THEN "pa_reply_target_admin"
    ELSE "done"

\* decorators.py:90-95, 131-137: where check_admin_permissions returns to
AfterCheck(g, v) ==
    IF g = "admin_only" THEN (IF ~v THEN "ao_reply_not_admin" ELSE "ao_func")
    ELSE IF g = "protect_admins" THEN (IF v THEN "pa_reply_target_admin" ELSE "pa_func")
    ELSE "done"

\* return v from check_admin_permissions
CapReturn(v) ==
    /\ is_admin' = IF v THEN "true" ELSE "false"
    /\ gpc' = AfterCheck(gate, v)

\* the exception of get_chat leaving check_admin_permissions
CapFailPropagates == gpc' = "raised" /\ UNCHANGED is_admin

\* decorators.py:67-69: the outer except clause returns False
CapFail == CapReturn(FALSE)

\* an awaited call whose result only selects the next await
Await(c, t, okpc, errpc) ==
    /\ \E o \in Outcomes :
        /\ Called(c, o, t)
        /\ gpc' = IF o = "ok" THEN okpc ELSE errpc
    /\ UNCHANGED <<env_vars, cap_user, is_admin>>
    /\ UNCHANGED <<gemini_vars, chunk_vars>>

Reply(t, okpc, errpc) == Await("reply", t, okpc, errpc)

-----------------------------------------------------------------------------
(* check_admin_permissions, decorators.py:10-69 *)

\* decorators.py:14-17, 67-69
CapGetChat ==
    /\ gpc = "cap_get_chat"
    /\ \E o \in Outcomes :
        /\ CalledBy("check_admin_permissions", "get_chat", o, <<>>)
        /\ IF o = "err" THEN CapFail
           ELSE IF IsPrivate(chat_type) THEN CapReturn(TRUE)
           ELSE gpc' = "cap_bot" /\ UNCHANGED is_admin
    /\ UNCHANGED <<env_vars, cap_user>>
    /\ UNCHANGED <<gemini_vars, chunk_vars>>

\* decorators.py:22-29
CapBot ==
    /\ gpc = "cap_bot"
    /\ \E o \in Outcomes :
        /\ CalledBy("check_admin_permissions", "get_chat_member_me", o, <<>>)
        /\ IF o = "ok" /\ ~IsAdminStatus(members["me"].status)
           THEN CapReturn(FALSE)
           ELSE gpc' = "cap_user" /\ UNCHANGED is_admin
    /\ UNCHANGED <<env_vars, cap_user>>
    /\ UNCHANGED <<gemini_vars, chunk_vars>>

\* decorators.py:32-47
CapUser ==
    /\ gpc = "cap_user"
    /\ \E o \in LookupOutcomes :
        /\ CalledBy("check_admin_permissions", "get_chat_member_user", o, <<cap_user>>)
        /\ IF o = "ok" THEN CapReturn(IsAdminStatus(members[cap_user].status))
           ELSE IF o = "uai" THEN CapReturn(FALSE)
           ELSE gpc' = "cap_admins" /\ UNCHANGED is_admin
    /\ UNCHANGED <<env_vars, cap_user>>
    /\ UNCHANGED <<gemini_vars, chunk_vars>>

\* decorators.py:50-65
CapAdmins ==
    /\ gpc = "cap_admins"
    /\ \E o \in Outcomes :
        /\ CalledBy("check_admin_permissions", "get_chat_administrators", o, <<>>)
        /\ IF o = "ok" THEN CapReturn(InAdmins(Administrators, cap_user))
           ELSE CapReturn(FALSE)
    /\ UNCHANGED <<env_vars, cap_user>>
    /\ UNCHANGED <<gemini_vars, chunk_vars>>

-----------------------------------------------------------------------------
(* admin_only, decorators.py:71-102 *)

\* decorators.py:77-78, 90
AoGetChat ==
    /\ gpc = "ao_get_chat"
    /\ \E o \in Outcomes :
        /\ Called("get_chat", o, <<>>)
        /\ IF o = "err" THEN gpc' = "ao_reply_unexpected" /\ UNCHANGED cap_user
           ELSE IF ~IsPrivate(chat_type) THEN gpc' = "ao_bot" /\ UNCHANGED cap_user
           ELSE gpc' = "cap_get_chat" /\ cap_user' = Invoker
    /\ UNCHANGED <<env_vars, is_admin>>
    /\ UNCHANGED <<gemini_vars, chunk_vars>>

\* decorators.py:80-87, 90
AoBot ==
    /\ gpc = "ao_bot"
    /\ \E o \in Outcomes :
        /\ Called("get_chat_member_me", o, <<>>)
        /\ IF o = "err" THEN gpc' = "ao_reply_bot_unverifiable" /\ UNCHANGED cap_user
           ELSE IF ~IsAdminStatus(members["me"].status)
                THEN gpc' = "ao_reply_bot_not_admin" /\ UNCHANGED cap_user
                ELSE gpc' = "cap_get_chat" /\ cap_user' = Invoker
    /\ UNCHANGED <<env_vars, is_admin>>
    /\ UNCHANGED <<gemini_vars, chunk_vars>>

\* decorators.py:82-83: inside the inner try, so a failure lands in line 84
AoReplyBotNotAdmin ==
    /\ gpc = "ao_reply_bot_not_admin"
    /\ Reply(<<"bot_not_admin">>, "done", "ao_reply_bot_unverifiable")

\* decorators.py:86-87
AoReplyBotUnverifiable ==
    /\ gpc = "ao_reply_bot_unverifiable"
    /\ Reply(<<"bot_unverifiable">>, "done", "ao_reply_unexpected")

\* decorators.py:92-93
AoReplyNotAdmin ==
    /\ gpc = "ao_reply_not_admin"
    /\ Reply(<<"not_admin">>, "done", "ao_reply_unexpected")

\* decorators.py:95
AoFunc ==
    /\ gpc = "ao_func"
    /\ Await("func", <<>>, "done", "ao_reply_unexpected")

\* decorators.py:97-100
AoReplyUnexpected ==
    /\ gpc = "ao_reply_unexpected"
    /\ Reply(<<"unexpected">>, "done", "raised")

-----------------------------------------------------------------------------
(* protect_admins, decorators.py:104-139 *)

\* decorators.py:113-115
PaGetChat ==
    /\ gpc = "pa_get_chat"
    /\ Await("get_chat", <<>>,
          IF IsPrivate(chat_type) THEN "pa_func" ELSE "pa_extract", "raised")

\* decorators.py:118-131
PaExtract ==
    /\ gpc = "pa_extract"
    /\ \E o \in Outcomes :
        /\ Called("extract_user_and_reason", o, <<>>)
        /\ IF o = "err" THEN gpc' = "raised" /\ UNCHANGED cap_user
           ELSE IF target_user = "none" THEN gpc' = "pa_func" /\ UNCHANGED cap_user
           ELSE IF target_user = Invoker
                THEN gpc' = "pa_reply_self" /\ UNCHANGED cap_user
                ELSE gpc' = "cap_get_chat" /\ cap_user' = target_user
    /\ UNCHANGED <<env_vars, is_admin>>
    /\ UNCHANGED <<gemini_vars, chunk_vars>>

\* decorators.py:127-128
PaReplySelf ==
    /\ gpc = "pa_reply_self"
    /\ Reply(<<"self_action">>, "done", "raised")

\* decorators.py:133-134
PaReplyTargetAdmin ==
    /\ gpc = "pa_reply_target_admin"
    /\ Reply(<<"target_is_admin">>, "done", "raised")

\* decorators.py:115, 123, 137
PaFunc ==
    /\ gpc = "pa_func"
    /\ Await("func", <<>>, "done", "raised")

-----------------------------------------------------------------------------
(* require_permission, decorators.py:141-199 *)

\* decorators.py:148
RpFuncPrivate ==
    /\ gpc = "rp_func_private"
    /\ Await("func", <<>>, "done", "raised")

\* decorators.py:151-161
RpBot ==
    /\ gpc = "rp_bot"
    /\ Await("get_chat_member_me", <<>>,
          IF IsAdminStatus(members["me"].status) THEN "rp_user"
          ELSE "rp_reply_bot_not_admin",
          "rp_reply_bot_unverifiable")

\* decorators.py:154-155: inside the try, so a failure lands in line 156
RpReplyBotNotAdmin ==
    /\ gpc = "rp_reply_bot_not_admin"
    /\ Reply(<<"bot_not_admin">>, "done", "rp_reply_bot_unverifiable")

\* decorators.py:158-159
RpReplyBotUnverifiable ==
    /\ gpc = "rp_reply_bot_unverifiable"
    /\ Reply(<<"bot_unverifiable">>, "done", "raised")

\* decorators.py:163-179
RpUser ==
    /\ gpc = "rp_user"
    /\ \E o \in LookupOutcomes :
        /\ Called("get_chat_member_user", o, <<Invoker>>)
        /\ gpc' = IF o = "ok" THEN DirectDecision(members[Invoker], permission)
                  ELSE IF o = "uai" THEN "rp_reply_unverifiable"
                  ELSE "rp_admins"
    /\ UNCHANGED <<env_vars, cap_user, is_admin>>
    /\ UNCHANGED <<gemini_vars, chunk_vars>>

\* decorators.py:166, 170: the body runs inside the try of line 162, so what
\* it raises is handled by lines 177 and 179
RpFuncDirect ==
    /\ gpc = "rp_func_direct"
    /\ \E o \in LookupOutcomes :
        /\ Called("func", o, <<>>)
        /\ gpc' = IF o = "ok" THEN "done"
                  ELSE IF o = "uai" THEN "rp_reply_unverifiable"
                  ELSE "rp_admins"
    /\ UNCHANGED <<env_vars, cap_user, is_admin>>
    /\ UNCHANGED <<gemini_vars, chunk_vars>>

\* decorators.py:172-173
RpReplyNeedPermission ==
    /\ gpc = "rp_reply_need_permission"
    /\ Reply(<<"need_permission", permission>>, "done", "rp_admins")

\* decorators.py:175
RpReplyNotAdmin ==
    /\ gpc = "rp_reply_not_admin"
    /\ Reply(<<"not_admin">>, "done", "rp_admins")

\* decorators.py:177-178
RpReplyUnverifiable ==
    /\ gpc = "rp_reply_unverifiable"
    /\ Reply(<<"user_unverifiable">>, "done", "raised")

\* decorators.py:182-194
RpAdmins ==
    /\ gpc = "rp_admins"
    /\ Await("get_chat_administrators", <<>>,
          FallbackDecision(Administrators, Invoker, permission),
          "rp_reply_fallback_failed")

\* decorators.py:187, 189
RpFuncFallback ==
    /\ gpc = "rp_func_fallback"
    /\ Await("func", <<>>, "done", "rp_reply_fallback_failed")

\* decorators.py:191-192
RpReplyNeedPermissionFb ==
    /\ gpc = "rp_reply_need_permission_fb"
    /\ Reply(<<"need_permission", permission>>, "done",
          "rp_reply_fallback_failed")

\* decorators.py:193
RpReplyNotAdminFb ==
    /\ gpc = "rp_reply_not_admin_fb"
    /\ Reply(<<"not_admin">>, "done", "rp_reply_fallback_failed")

\* decorators.py:194-196
RpReplyFallbackFailed ==
    /\ gpc = "rp_reply_fallback_failed"
    /\ Reply(<<"fallback_failed">>, "done", "raised")

-----------------------------------------------------------------------------
(* One gate run *)

\* the wrapper (or check_admin_permissions itself) is called: it runs to its
\* first await.  decorators.py:14, 77, 113, 146-152
Start ==
    /\ gpc = "start"
    /\ gpc' = IF gate = "admin_only" THEN "ao_get_chat"
              ELSE IF gate = "protect_admins" THEN "pa_get_chat"
              ELSE IF gate = "require_permission"
                   THEN (IF IsPrivate(chat_type) THEN "rp_func_private" ELSE "rp_bot")
                   ELSE "cap_get_chat"
    /\ cap_user' = IF gate = "check_admin_permissions" THEN Invoker ELSE cap_user
    /\ UNCHANGED <<env_vars, is_admin, calls>>
    /\ UNCHANGED <<gemini_vars, chunk_vars>>

\* the membership data a run of gate g can read
MembersFor(g) ==
    {m \in [UserIds -> {Member(st, pr) : st \in Statuses, pr \in PrivilegeSets}] :
        /\ m["me"].privileges = NoPrivileges
        /\ g # "require_permission" => m[Invoker].privileges = NoPrivileges
        /\ m["u2"].privileges = NoPrivileges
        /\ g # "protect_admins" => m["u2"].status = "administrator"
        /\ Cardinality({u \in UserIds : m[u].status = "owner"}) <= 1}     \* one owner per chat

GateInit ==
    /\ gate \in Gates
    /\ gpc = "start"
    /\ chat_type \in ChatTypes
    /\ members \in MembersFor(gate)
    /\ target_user \in (IF gate = "protect_admins" THEN Targets ELSE {"none"})
    /\ permission \in (IF gate = "require_permission" THEN Permissions
                       ELSE {"can_restrict_members"})
    /\ cap_user = "none"
    /\ is_admin = "unset"
    /\ calls = <<>>

\* no response is being chunked
ChunkIdle ==
    /\ response_text = <<>>
    /\ cpc = "done"
    /\ pending = <<>>
    /\ outbox = <<>>

GateIdle ==
    /\ gate = "admin_only"
    /\ gpc = "done"
    /\ chat_type = "private"
    /\ members = [u \in UserIds |-> Member("member", NoPrivileges)]
    /\ target_user = "none"
    /\ permission = "can_restrict_members"
    /\ cap_user = "none"
    /\ is_admin = "unset"
    /\ calls = <<>>

GateNext ==
    \/ Start
    \/ CapGetChat \/ CapBot \/ CapUser \/ CapAdmins
    \/ AoGetChat \/ AoBot \/ AoReplyBotNotAdmin \/ AoReplyBotUnverifiable
    \/ AoReplyNotAdmin \/ AoFunc \/ AoReplyUnexpected
    \/ PaGetChat \/ PaExtract \/ PaReplySelf \/ PaReplyTargetAdmin \/ PaFunc
    \/ RpFuncPrivate \/ RpBot \/ RpReplyBotNotAdmin \/ RpReplyBotUnverifiable
    \/ RpUser \/ RpFuncDirect \/ RpReplyNeedPermission \/ RpReplyNotAdmin
    \/ RpReplyUnverifiable \/ RpAdmins \/ RpFuncFallback
    \/ RpReplyNeedPermissionFb \/ RpReplyNotAdminFb \/ RpReplyFallbackFailed

-----------------------------------------------------------------------------
(* Specifications *)

Init == GeminiInit /\ GateIdle /\ ChunkIdle

Next == \E i \in Inv : Enter(i) \/ Resume(i)

Spec == Init /\ [][Next]_vars

\* every coroutine that has started is eventually resumed: each awaited call
\* returns or raises, and the event loop runs every ready coroutine
FairSpec == Spec /\ \A i \in Inv : WF_vars(Resume(i))

\* one request at a time, carrying any text of at most MaxTextLen tokens
PromptNext ==
    \/ (pc[1] = "idle" /\ EnterFrom(1, AllMessages))
    \/ SaveUsage(1) \/ ReplyUsage(1) \/ ReplyWait(1) \/ Generate(1)
    \/ ReplyPart(1) \/ Sleep(1) \/ ReplyWhole(1) \/ Delete(1) \/ ReplyError(1)

PromptSpec == Init /\ [][PromptNext]_vars

\* chat.py:81-84, 89: what will be sent, the parts or the whole text
ChunkSplit ==
    /\ cpc = "split"
    /\ pending' = IF Len(response_text) > limit
                  THEN Parts(response_text)
                  ELSE <<response_text>>
    /\ cpc' = "send"
    /\ UNCHANGED <<response_text, outbox>>
    /\ UNCHANGED <<gemini_vars, gate_vars>>

\* chat.py:86 and 89: the next reply is sent, or message.reply raises
ChunkSend ==
    /\ cpc = "send"
    /\ \E o \in Outcomes :
        IF o = "ok"
        THEN /\ outbox' = Append(outbox, pending[Len(outbox) + 1])
             /\ cpc' = IF Len(response_text) > limit THEN "sleep" ELSE "done"
        ELSE /\ cpc' = "failed"
             /\ UNCHANGED outbox
    /\ UNCHANGED <<response_text, pending>>
    /\ UNCHANGED <<gemini_vars, gate_vars>>

\* chat.py:87, then the next iteration of the for loop or its end
ChunkSleep ==
    /\ cpc = "sleep"
    /\ cpc' = IF Len(outbox) < Len(pending) THEN "send" ELSE "done"
    /\ UNCHANGED <<response_text, pending, outbox>>
    /\ UNCHANGED <<gemini_vars, gate_vars>>

\* chat.py:80: the backend returned a text
ChunkInit ==
    /\ response_text \in {TextOfLen(n) : n \in ChunkLens}
    /\ cpc = "split"
    /\ pending = <<>>
    /\ outbox = <<>>

ChunkSpecInit == ChunkInit /\ GeminiInit /\ GateIdle

ChunkNext == ChunkSplit \/ ChunkSend \/ ChunkSleep

ChunkSpec == ChunkSpecInit /\ [][ChunkNext]_vars

GateSpecInit == GateInit /\ GeminiInit /\ ChunkIdle

GateSpec == GateSpecInit /\ [][GateNext]_vars

-----------------------------------------------------------------------------
(* Properties of gemini_command (Spec, FairSpec) *)

Final == {"done", "raised"}

\* coroutine i passed the guard: it inserted its chat id
Inserted(i) == pc[i] \notin {"idle", "reply_busy"} /\ (log[i] = <<>> \/ log[i][1].call # "reply_busy")

\* coroutine i terminated at chat.py:36, before the try statement
LeftAtSaveUsage(i) == pc[i] = "raised" /\ log[i] = <<Ev("save_usage", "err")>>

\* coroutine i is between its insertion and its removal of the chat id
Between(i) == Inserted(i) /\ (pc[i] \notin Final \/ LeftAtSaveUsage(i))

NumCalls(i, c) == Cardinality({k \in 1..Len(log[i]) : log[i][k].call = c})

\* C1: at every moment at most one invocation per chat id is between the
\* insertion of its chat id and its removal, so at most one generate_content
\* call is in flight per chat; while an invocation is there its chat id is in
\* active_gemini_requests (test and insertion are one step, so no second
\* invocation slips in between them).
C1_SingleFlight ==
    /\ \A i, j \in Inv :
           (i # j /\ Between(i) /\ Between(j)) => chat_id[i] # chat_id[j]
    /\ \A i \in Inv : Between(i) => chat_id[i] \in active_gemini_requests
    /\ \A c \in Chats :
           Cardinality({i \in Inv : pc[i] = "generate" /\ chat_id[i] = c}) <= 1

\* one chat has a backend call in flight while a second request for the same
\* chat has been turned away by the guard
C1_Witness ==
    \E i, j \in Inv :
        /\ i # j /\ chat_id[i] = chat_id[j]
        /\ pc[i] = "generate" /\ pc[j] = "reply_busy"

\* C2: every invocation that inserted its chat id has, at the step in which
\* it terminates (by return or by an exception, whichever awaited call raised
\* it), left active_gemini_requests without its chat id.
C2_ReleasedOnEveryExit ==
    [][\A i \in Inv :
          (pc[i] \notin Final /\ pc'[i] \in Final /\ pc[i] # "reply_busy")
              => chat_id[i] \notin active_gemini_requests']_vars

\* C3: an invocation that finds its chat id in active_gemini_requests goes to
\* the 'wait for previous request' reply and nowhere else: its steps leave the
\* set as it is, its only call is that reply, it never reaches the backend,
\* and once it has terminated it never runs again.
C3_BusyIsDropped ==
    [][\A i \in Inv :
          /\ (pc[i] = "idle" /\ pc'[i] # "idle"
                  /\ chat_id'[i] \in active_gemini_requests)
                 => /\ pc'[i] = "reply_busy"
                    /\ active_gemini_requests' = active_gemini_requests
          /\ (pc[i] = "reply_busy" /\ pc'[i] # "reply_busy")
                 => /\ pc'[i] \in Final
                    /\ active_gemini_requests' = active_gemini_requests
                    /\ Len(log'[i]) = 1 /\ log'[i][1].call = "reply_busy"
          /\ (pc[i] \in Final /\ Len(log[i]) = 1 /\ log[i][1].call = "reply_busy")
                 => (pc'[i] = pc[i] /\ log'[i] = log[i])]_vars

\* a request was dropped while the request that holds the chat is still in
\* flight: the holder's chat id is still in the set
C3_Witness ==
    \E i, j \in Inv :
        /\ i # j /\ chat_id[i] = chat_id[j]
        /\ pc[j] = "done" /\ log[j] = <<Ev("reply_busy", "ok")>>
        /\ pc[i] = "generate" /\ chat_id[i] \in active_gemini_requests

\* C4: no chat is blocked forever: a request for a chat all of whose earlier
\* requests have completed, by success or by failure, passes the guard and is
\* accepted.
C4_AcceptedAfterCompletion ==
    [][\A i \in Inv :
          (/\ pc[i] = "idle" /\ pc'[i] # "idle"
           /\ \A j \in Inv \ {i} :
                  (pc[j] # "idle" /\ chat_id[j] = chat_id'[i]) => pc[j] \in Final)
              => pc'[i] = "save_usage"]_vars

\* C4, the liveness half under FairSpec: with every awaited call returning or
\* raising, a chat id in active_gemini_requests is eventually removed.
C4_EventuallyReleased ==
    \A c \in Chats :
        (c \in active_gemini_requests) ~> (c \notin active_gemini_requests)

-----------------------------------------------------------------------------
(* Properties of the decorators (GateSpec) *)

GFinal == {"done", "raised"}
AdminStatuses == {"owner", "administrator"}
Wrappers == {"admin_only", "protect_admins", "require_permission"}
Cap == "check_admin_permissions"

Idx == 1..Len(calls)
Did(f, c, r) == \E k \in Idx : calls[k].by = f /\ calls[k].call = c /\ calls[k].res = r
Made(c) == \E k \in Idx : calls[k].call = c
Count(c) == Cardinality({k \in Idx : calls[k].call = c})
Replied(t) == \E k \in Idx : calls[k].call = "reply" /\ calls[k].text = t
MembershipCalls ==
    {"get_chat_member_me", "get_chat_member_user", "get_chat_administrators"}

\* C5: in a non-private chat, when the extracted target is another user who
\* is owner or administrator of the chat, protect_admins never calls the body
\* and ends with the cannot-target-an-administrator reply, whatever the
\* membership lookups made for the target return or raise.
C5_AdminTargetProtected ==
    (/\ gate = "protect_admins" /\ chat_type # "private"
     /\ Did("protect_admins", "extract_user_and_reason", "ok")
     /\ target_user \notin {"none", Invoker}
     /\ members[target_user].status \in AdminStatuses
     /\ ~\E k \in Idx : calls[k].call = "get_chat" /\ calls[k].res = "err")
        => /\ ~Made("func")
           /\ gpc \in GFinal => Replied(<<"target_is_admin">>)

\* C6: admin_only is fail-closed.  In a non-private chat the body is called
\* only after the wrapper's own bot lookup returned owner or administrator and
\* check_admin_permissions returned true; when the check returned false the
\* run ends with the authorization-error reply and no body call; when a
\* lookup of the wrapper raises (get_chat reaching the outer handler, or the
\* bot lookup) the run ends with an error reply and no body call.
C6_AdminOnlyFailClosed ==
    gate = "admin_only" =>
        /\ (Made("func") /\ chat_type # "private")
               => /\ Did("admin_only", "get_chat_member_me", "ok")
                  /\ members["me"].status \in AdminStatuses
                  /\ is_admin = "true"
        /\ Made("func") => is_admin = "true"
        /\ (is_admin = "false" /\ gpc \in GFinal)
               => (Replied(<<"not_admin">>) /\ ~Made("func"))
        /\ (Did("admin_only", "get_chat", "err") /\ gpc \in GFinal)
               => (Replied(<<"unexpected">>) /\ ~Made("func"))
        /\ (Did("admin_only", "get_chat_member_me", "err") /\ gpc \in GFinal)
               => (Replied(<<"bot_unverifiable">>) /\ ~Made("func"))

\* an invoker who is not an admin was turned away in a group whose bot is admin
C6_Witness ==
    /\ gate = "admin_only" /\ chat_type # "private" /\ gpc = "done"
    /\ members["me"].status = "administrator"
    /\ members[Invoker].status = "member"
    /\ is_admin = "false" /\ Replied(<<"not_admin">>) /\ ~Made("func")

\* check_admin_permissions has returned for a chat it saw to be non-private
CapDecided ==
    /\ cap_user # "none" /\ is_admin # "unset"
    /\ chat_type # "private" /\ Did(Cap, "get_chat", "ok")

\* the lookups about the user did not end in UserAdminInvalid or in a failed
\* enumeration
CapUserLookupsDecide ==
    /\ ~Did(Cap, "get_chat_member_user", "uai")
    /\ ~Did(Cap, "get_chat_administrators", "err")

\* C7 as stated: for every non-private chat and every user the result is true
\* exactly when the user's status is owner or administrator, on the direct
\* path and on the administrator-list path.
C7_ResultIsStatus ==
    (CapDecided /\ CapUserLookupsDecide)
        => (is_admin = "true" <=> members[cap_user].status \in AdminStatuses)

\* C7 amended: the same, provided the bot's own lookup did not report a
\* status other than owner or administrator for the bot (decorators.py:25-27
\* answers false for every user in that case).
C7_ResultIsStatusUnlessBotNotAdmin ==
    (/\ CapDecided /\ CapUserLookupsDecide
     /\ ~(Did(Cap, "get_chat_member_me", "ok")
              /\ members["me"].status \notin AdminStatuses))
        => (is_admin = "true" <=> members[cap_user].status \in AdminStatuses)

\* the owner was recognised through the administrator list after the direct
\* lookup had failed
C7_Witness ==
    /\ CapDecided
    /\ Did(Cap, "get_chat_member_user", "err")
    /\ Did(Cap, "get_chat_administrators", "ok")
    /\ members[cap_user].status = "owner" /\ is_admin = "true"

\* C8: when the bot is neither owner nor administrator of a non-private chat,
\* admin_only and require_permission make no lookup about the invoking user,
\* no administrator enumeration and no body call, and a run in which the bot
\* lookup returned ends with the bot-permission reply; in every run, every
\* lookup about the user and every body call of a non-private chat comes
\* after a bot lookup of the wrapper that returned.
C8_BotCheckFirst ==
    gate \in {"admin_only", "require_permission"} =>
        /\ (chat_type # "private" /\ members["me"].status \notin AdminStatuses)
               => /\ ~Made("get_chat_member_user")
                  /\ ~Made("get_chat_administrators")
                  /\ ~Made("func")
                  /\ (Did(gate, "get_chat_member_me", "ok") /\ gpc \in GFinal)
                         => Replied(<<"bot_not_admin">>)
        /\ \A k \in Idx :
               (/\ calls[k].call \in {"get_chat_member_user", "get_chat_administrators"}
                       \/ (calls[k].call = "func" /\ chat_type # "private"))
                   => \E j \in 1..(k - 1) :
                          calls[j] = GEv(gate, "get_chat_member_me", "ok", <<>>)

\* require_permission turned the command away in a group where the bot is an
\* ordinary member
C8_Witness ==
    /\ gate = "require_permission" /\ chat_type # "private" /\ gpc = "done"
    /\ members["me"].status = "member"
    /\ members[Invoker].status = "owner"
    /\ calls = <<GEv(gate, "get_chat_member_me", "ok", <<>>),
                 GEv(gate, "reply", "ok", <<"bot_not_admin">>)>>

\* the invoker's record as require_permission reads it
RpOwner == members[Invoker].status = "owner"
RpAdministrator == members[Invoker].status = "administrator"
RpFlag ==
    /\ members[Invoker].privileges.present
    /\ permission \in members[Invoker].privileges.flags

\* the run took a path on which the invoker's record decides: the direct
\* lookup returned, or it raised an ordinary error and the enumeration returned
RpDirect == Did("require_permission", "get_chat_member_user", "ok")
RpFallback ==
    /\ Did("require_permission", "get_chat_member_user", "err")
    /\ Did("require_permission", "get_chat_administrators", "ok")

\* C9: require_permission(p), non-private chat, bot admin, run finished: on the
\* direct path and on the administrator-list path alike, an owner reaches the
\* body whatever the privileges are, an administrator reaches it iff the
\* privilege object exists and its flag p is set and otherwise gets the reply
\* naming p, and any other status gets the administrators-only reply and no
\* body call; no reply names another privilege.
C9_PermissionDecision ==
    (/\ gate = "require_permission" /\ chat_type # "private" /\ gpc \in GFinal
     /\ (RpDirect \/ RpFallback))
        => /\ RpOwner => (Made("func") /\ ~Replied(<<"need_permission", permission>>)
                              /\ ~Replied(<<"not_admin">>))
           /\ RpAdministrator => (Made("func") <=> RpFlag)
           /\ (RpAdministrator /\ ~RpFlag)
                  => Replied(<<"need_permission", permission>>)
           /\ (~RpOwner /\ ~RpAdministrator)
                  => (~Made("func") /\ Replied(<<"not_admin">>))
           /\ \A k \in Idx :
                  (calls[k].call = "reply" /\ calls[k].text[1] = "need_permission")
                      => calls[k].text = <<"need_permission", permission>>

\* an administrator holding another flag than the required one was rejected
\* on the administrator-list path
C9_Witness ==
    /\ gate = "require_permission" /\ chat_type # "private" /\ gpc = "done"
    /\ RpFallback /\ RpAdministrator
    /\ members[Invoker].privileges.present
    /\ members[Invoker].privileges.flags = Permissions \ {permission}
    /\ ~Made("func") /\ Replied(<<"need_permission", permission>>)

-----------------------------------------------------------------------------
(* Error handling of the entry points *)

\* C11: no failure propagates past a command entry point: whichever awaited
\* collaborator calls raise (the wrapped body aside), a wrapper made by
\* admin_only, protect_admins or require_permission terminates without raising.
C11_WrapperNeverRaises ==
    (gate \in Wrappers /\ ~\E k \in Idx : calls[k].call = "func" /\ calls[k].res # "ok")
        => gpc # "raised"

\* C11, the handler: gemini_command terminates without raising (Spec).
C11_HandlerNeverRaises == \A i \in Inv : pc[i] # "raised"

\* the reply calls of gemini_command
ReplyCalls ==
    {"reply_busy", "reply_usage", "reply_wait", "reply_part", "reply_whole",
     "reply_error"}

\* replies of invocation i that reached the user
VisibleReplies(i) ==
    Cardinality({k \in 1..Len(log[i]) :
                    log[i][k].call \in ReplyCalls /\ log[i][k].res = "ok"})

\* invocation i terminated through the except clause of chat.py:92
EndedOnFailurePath(i) == pc[i] \in Final /\ NumCalls(i, "reply_error") > 0

\* invocation i does not hold its chat id: the id is out of the set, or it
\* is there for another invocation
Released(i) ==
    \/ chat_id[i] \notin active_gemini_requests
    \/ \E j \in Inv \ {i} : Between(j) /\ chat_id[j] = chat_id[i]

\* every reply call of invocation i returned
RepliesDelivered(i) ==
    \A k \in 1..Len(log[i]) : log[i][k].call \in ReplyCalls => log[i][k].res = "ok"

\* C12 as stated: an invocation that ended on a failure path has sent exactly
\* one user-visible reply in total, and has released the guard (taken over
\* the runs in which message.reply itself never fails).
C12_OneReplyInTotal ==
    \A i \in Inv :
        (EndedOnFailurePath(i) /\ RepliesDelivered(i))
            => (VisibleReplies(i) = 1 /\ Released(i))

\* C12 amended: an invocation that ended on a failure path has issued the
\* failure reply exactly once, as its last call and after whatever interim and
\* segment replies preceded the failure, and has released the guard.
C12_OneFailureReply ==
    \A i \in Inv :
        EndedOnFailurePath(i)
            => /\ NumCalls(i, "reply_error") = 1
               /\ log[i][Len(log[i])].call = "reply_error"
               /\ \A k \in 1..(Len(log[i]) - 2) : log[i][k].res = "ok"
               /\ log[i][Len(log[i]) - 1].res = "err"
                      \/ (~message[i].has_text /\ Len(log[i]) = 2)
                      \/ log[i][Len(log[i]) - 1].call = "generate_content"
               /\ Released(i)

\* the backend call failed after the interim reply: two replies reached the
\* user, the second is the failure reply
C12_Witness ==
    \E i \in Inv :
        /\ pc[i] = "done"
        /\ log[i] = <<Ev("save_usage", "ok"), Ev("reply_wait", "ok"),
                      Ev("generate_content", "err"), Ev("reply_error", "ok")>>
        /\ chat_id[i] \notin active_gemini_requests

\* C13: a finished run of a wrapper in a non-private chat has either called
\* the body exactly once and sent no reply, or not called the body and sent
\* exactly one reply (taken over the runs in which every lookup and every
\* reply returned).
C13_OneOutcome ==
    (/\ gate \in Wrappers /\ chat_type # "private" /\ gpc \in GFinal
     /\ \A k \in Idx : calls[k].call # "func" => calls[k].res = "ok")
        => \/ (Count("func") = 1 /\ Count("reply") = 0)
           \/ (Count("func") = 0 /\ Count("reply") = 1)

-----------------------------------------------------------------------------
(* The prompt (PromptSpec) *)

\* the text holds nothing but the command token, the mention token and blanks
OnlyCommandTokens(t) == \A k \in 1..Len(t) : t[k] \in {CMD, MENTION, SP}

\* invocation i got as far as chat.py:38
ReachedPrompt(i) == Len(log[i]) >= 1 /\ log[i][1] = Ev("save_usage", "ok")

\* C14: an invocation whose prompt is empty once the command token, the bot
\* mention and the surrounding blanks are stripped goes to the usage-hint
\* reply, makes no backend call and sends no interim reply, and its chat id
\* is out of active_gemini_requests when it has terminated; a text that
\* leaves a prompt never gets the usage hint.
C14_EmptyPrompt ==
    \A i \in Inv :
        (message[i].has_text /\ ReachedPrompt(i))
            => IF OnlyCommandTokens(message[i].text)
               THEN /\ NumCalls(i, "generate_content") = 0
                    /\ NumCalls(i, "reply_wait") = 0
                    /\ pc[i] \in {"reply_usage", "reply_error"} \cup Final
                    /\ Len(log[i]) >= 2 => log[i][2].call = "reply_usage"
                    /\ pc[i] \in Final => chat_id[i] \notin active_gemini_requests
               ELSE NumCalls(i, "reply_usage") = 0

\* "/gemini@ShinBot" after a blank: the usage hint was sent and the chat is free
C14_Witness ==
    \E i \in Inv :
        /\ pc[i] = "done"
        /\ message[i].text = <<SP, CMD, MENTION>>
        /\ log[i] = <<Ev("save_usage", "ok"), Ev("reply_usage", "ok")>>
        /\ chat_id[i] \notin active_gemini_requests

-----------------------------------------------------------------------------
(* Response chunking (ChunkSpec) *)

RECURSIVE Concat(_)
Concat(ss) ==
    IF ss = <<>> THEN <<>>
    ELSE Concat(SubSeq(ss, 1, Len(ss) - 1)) \o ss[Len(ss)]

Lengths(ss) == [k \in 1..Len(ss) |-> Len(ss[k])]

\* ceil(L / limit)
CeilDiv(L) == (L + limit - 1) \div limit

\* C15: a response of length L is sent as one reply when L <= 4000 and as
\* ceil(L/4000) replies otherwise, each of 4000 units except the last, which
\* carries the rest; the replies go out in left-to-right order and their
\* concatenation is the response; L = 8001 gives lengths 4000, 4000, 1.
C15_Chunking ==
    LET L == Len(response_text)
        n == Len(outbox)
    IN  /\ cpc # "split" =>
              /\ Lengths(pending) = Segments([has_text |-> TRUE, len |-> L])
              /\ n <= Len(pending)
              /\ \A k \in 1..n : outbox[k] = pending[k]
              /\ Concat(outbox) = SubSeq(response_text, 1, Len(Concat(outbox)))
        /\ cpc = "done" =>
              /\ n = IF L <= limit THEN 1 ELSE CeilDiv(L)
              /\ \A k \in 1..(n - 1) : Len(outbox[k]) = limit
              /\ Len(outbox[n]) = L - (n - 1) * limit
              /\ Concat(outbox) = response_text
              /\ L = 8001 => Lengths(outbox) = <<4000, 4000, 1>>

\* a response of 8001 units has gone out as 4000, 4000 and 1
C15_Witness ==
    /\ cpc = "done"
    /\ Len(response_text) = 2 * limit + 1
    /\ Lengths(outbox) = <<limit, limit, 1>>

-----------------------------------------------------------------------------
(* Failures inside check_admin_permissions (GateSpec) *)

\* the run is inside check_admin_permissions
InCap == gpc \in {"cap_get_chat", "cap_bot", "cap_user", "cap_admins"}

\* the last call of the run was made by check_admin_permissions
LastCallByCap == Len(calls) > 0 /\ calls[Len(calls)].by = Cap

\* C16: check_admin_permissions never raises: whatever get_chat, the two
\* get_chat_member lookups and get_chat_administrators do, it returns a
\* boolean, and it returns false when get_chat fails.
C16_CheckNeverRaises ==
    /\ (gate = Cap /\ gpc \in GFinal) => (gpc = "done" /\ is_admin \in {"true", "false"})
    /\ LastCallByCap => (gpc # "raised" /\ (InCap \/ is_admin \in {"true", "false"}))
    /\ Did(Cap, "get_chat", "err") => (/\ is_admin = "false"
            /\ ~\E k \in Idx : calls[k].by = Cap /\ calls[k].call # "get_chat")

\* get_chat raised and the function returned false
C16_Witness ==
    /\ gate = Cap /\ gpc = "done"
    /\ Did(Cap, "get_chat", "err")
    /\ is_admin = "false"

-----------------------------------------------------------------------------
(* Targets of protect_admins and body invocations of require_permission *)

\* protect_admins in a non-private chat has the target in hand
PaTargetKnown ==
    /\ gate = "protect_admins" /\ chat_type # "private"
    /\ Did("protect_admins", "get_chat", "ok")
    /\ Did("protect_admins", "extract_user_and_reason", "ok")

\* C17: protect_admins in a non-private chat: when the target is the invoker
\* the wrapper goes to the self-action reply, never calls the body and never
\* enters check_admin_permissions, whatever the invoker's status; when the
\* target is another user who is not an admin the body is called exactly
\* once and the wrapper sends no reply.
C17_SelfAndNonAdminTarget ==
    /\ (PaTargetKnown /\ target_user = Invoker)
          => /\ gpc \in {"pa_reply_self"} \cup GFinal
             /\ ~Made("func")
             /\ ~\E k \in Idx : calls[k].by = Cap
             /\ gpc \in GFinal
                   => /\ Count("reply") = 1
                      /\ Replied(<<"self_action">>)
    /\ (/\ PaTargetKnown /\ target_user \notin {"none", Invoker}
        /\ members[target_user].status \notin AdminStatuses)
          => /\ Count("func") <= 1
             /\ ~Made("reply")
             /\ gpc \in GFinal => Count("func") = 1

\* the owner targeted themself and got the self-action reply
C17_Witness ==
    /\ PaTargetKnown /\ gpc = "done"
    /\ target_user = Invoker
    /\ members[Invoker].status = "owner"
    /\ Did("protect_admins", "reply", "ok") /\ Replied(<<"self_action">>)
    /\ ~Made("func")

\* C18: require_permission calls the body at most once per command message
\* on every path, also when the body raises after it was admitted by the
\* direct lookup.
C18_BodyAtMostOnce ==
    gate = "require_permission" => Count("func") <= 1

-----------------------------------------------------------------------------
(* The administrator-list fallback of check_admin_permissions (GateSpec) *)

\* the ids carried by the entries of the administrator list
AdminIds == {Administrators[k] : k \in 1..Len(Administrators)}

\* C19: check_admin_permissions calls get_chat_administrators only right
\* after its get_chat_member lookup of the user raised an error other than
\* UserAdminInvalid; after UserAdminInvalid it returns false without the
\* list; on the fallback path it returns true iff an entry of the list
\* carries the user's id, and false when the enumeration raises.
C19_FallbackOnlyOnOtherError ==
    /\ \A k \in Idx :
          (calls[k].by = Cap /\ calls[k].call = "get_chat_administrators")
              => /\ k > 1
                 /\ calls[k - 1] = GEv(Cap, "get_chat_member_user", "err", <<cap_user>>)
                 /\ is_admin \in {"true", "false"}
    /\ Did(Cap, "get_chat_member_user", "uai")
          => /\ is_admin = "false"
             /\ ~Did(Cap, "get_chat_administrators", "ok")
             /\ ~Did(Cap, "get_chat_administrators", "err")
    /\ Did(Cap, "get_chat_member_user", "err")
          => \/ gpc = "cap_admins" /\ is_admin = "unset"
             \/ Did(Cap, "get_chat_administrators", "ok")
             \/ Did(Cap, "get_chat_administrators", "err")
    /\ Did(Cap, "get_chat_administrators", "ok")
          => (is_admin = "true" <=> cap_user \in AdminIds)
    /\ Did(Cap, "get_chat_administrators", "err") => is_admin = "false"

\* the direct lookup raised, the list was read and the user was found in it
C19_Witness ==
    /\ gate = Cap /\ gpc = "done"
    /\ Did(Cap, "get_chat_member_user", "err")
    /\ Did(Cap, "get_chat_administrators", "ok")
    /\ Len(Administrators) > 1
    /\ is_admin = "true"

-----------------------------------------------------------------------------
(* Order of the calls of an accepted request (Spec) *)

SegmentCalls == {"reply_part", "reply_whole"}

\* the calls of invocation i before its k-th
Before(i, k) == SubSeq(log[i], 1, k - 1)

\* C20: in a run with a prompt, save_usage comes before the interim reply,
\* which comes right before the backend call; the backend is called once;
\* every segment reply comes after the backend call; the interim message is
\* deleted only after all segments were sent, and not on a failure path.
C20_EventOrder ==
    \A i \in Inv :
        /\ NumCalls(i, "generate_content") <= 1
        /\ NumCalls(i, "reply_wait") <= 1
        /\ NumCalls(i, "delete") <= 1
        /\ pc[i] \in {"reply_part", "sleep", "reply_whole", "delete"}
              => NumCalls(i, "generate_content") = 1
        /\ (NumCalls(i, "reply_wait") = 1 /\ pc[i] = "done" /\ NumCalls(i, "reply_error") = 0)
              => NumCalls(i, "generate_content") = 1
        /\ NumCalls(i, "reply_error") > 0 => Ev("delete", "ok") \notin {log[i][k] : k \in 1..Len(log[i])}
        /\ \A k \in 1..Len(log[i]) :
              LET e == log[i][k]
              IN  /\ e.call = "reply_wait" => (k = 2 /\ log[i][1] = Ev("save_usage", "ok"))
                  /\ e.call = "generate_content"
                        => (k = 3 /\ log[i][2] = Ev("reply_wait", "ok"))
                  /\ e.call \in SegmentCalls
                        => (k > 3 /\ log[i][3] = Ev("generate_content", "ok"))
                  /\ e.call = "delete"
                        => /\ \A j \in 1..(k - 1) : log[i][j].res = "ok"
                           /\ sent[i] = Len(parts[i])
                           /\ Cardinality({j \in 1..(k - 1) : log[i][j].call \in SegmentCalls})
                                 = Len(parts[i])
                           /\ Len(parts[i]) >= 1
                  /\ e.call = "reply_error" => k = Len(log[i])

\* three segments were sent and then the interim message was deleted
C20_Witness ==
    \E i \in Inv :
        /\ pc[i] = "done"
        /\ log[i] = <<Ev("save_usage", "ok"), Ev("reply_wait", "ok"),
                      Ev("generate_content", "ok"), Ev("reply_part", "ok"),
                      Ev("reply_part", "ok"), Ev("reply_part", "ok"),
                      Ev("delete", "ok")>>

=============================================================================
